---- MODULE Spec2Model ----
(***************************************************************************)
(* Model of the system-health sampler of src/app.js: the collection cycle  *)
(* (collectSnapshot), the counter-to-rate derivation, the rolling windows, *)
(* the warm-up and the periodic sampling timer, the heartbeat timer and    *)
(* the socket / HTTP handlers.                                             *)
(*                                                                         *)
(* Node runs every callback to completion, so one action is one callback   *)
(* together with the promise continuations (microtasks) it triggers.  A    *)
(* collection cycle is suspended at its Promise.all; its three groups of   *)
(* provider reads (disk counters, network counters, the remaining reads)   *)
(* settle in any order, interleaved with every other callback.             *)
(*                                                                         *)
(* Numbers that the code computes as doubles are modelled as exact         *)
(* fractions <<numerator, denominator>> in lowest terms.  Time is in ms.   *)
(***************************************************************************)
EXTENDS Integers, Sequences, FiniteSets, TLC

\* ------------------------------------------------------------- bounds ----
MaxCycles  == 3     \* collection cycles started in one behaviour
MaxClock   == 1     \* sampling intervals that Date.now() may advance in all
MaxSockets == 1     \* socket ids that may connect
MaxPushes  == 5     \* pushes made to the window under test

\* ---------------------------------------------------- program constants ----
HISTORY_POINTS     == 2       \* process.env.HISTORY_POINTS
SAMPLE_INTERVAL_MS == 1000    \* the default
BytesPerMB     == 1048576
MsPerSec       == 1000
PercentMax     == 100

\* a JavaScript value that may be absent: <<>> is null / undefined / a
\* non-numeric value, <<x>> is the value x
Null    == <<>>
Some(x) == <<x>>
Get(o)  == o[1]

Sockets  == 1..MaxSockets
CycleIds == 1..MaxCycles

\* ------------------------------------------------------------ numbers ----
Abs(n) == IF n < 0 THEN -n ELSE n

RECURSIVE GCD(_, _)
GCD(a, b) == IF b = 0 THEN a ELSE GCD(b, a % b)

\* the double n/d (d > 0), in lowest terms
Frac(n, d) == LET g == GCD(Abs(n), d) IN <<n \div g, d \div g>>

FracDiv(a, b) == Frac(a[1] * b[2], a[2] * b[1])

FracMul(a, b) == Frac(a[1] * b[1], a[2] * b[2])

FracSub(a, b) == Frac(a[1] * b[2] - b[1] * a[2], a[2] * b[2])

FracLess(a, b) == a[1] * b[2] < b[1] * a[2]

Zero    == Frac(0, 1)
Hundred == Frac(PercentMax, 1)

\* Math.max(a, b), Math.min(a, b)
MathMax(a, b) == IF FracLess(a, b) THEN b ELSE a
MathMin(a, b) == IF FracLess(b, a) THEN b ELSE a

\* Number(x) || 0 of a provider field
Num(x) == IF x = Null THEN 0 ELSE Get(x)

clampLowerOnly(n, min, max) == MathMax(n, min)

clamp(n, min, max) == MathMin(MathMax(n, min), max)

pushRollingNoShift(arr, item) == Append(arr, item)

pushRollingDropNewest(arr, item) ==
    LET a == Append(arr, item)
    IN  IF Len(a) > HISTORY_POINTS THEN SubSeq(a, 1, Len(a) - 1) ELSE a

pushRolling(arr, item) ==
    LET a == Append(arr, item)
    IN  IF Len(a) > HISTORY_POINTS THEN Tail(a) ELSE a

bytesToMB(b) == Frac(b, BytesPerMB)

\* ----------------------------------------------------- provider reads ----
\* what the provider returns to the cycles of the sampling loop: a host whose
\* counters stand still
IdleDisk == [rBytes |-> Some(1000000), wBytes |-> Some(3000000)]
IdleNets == << [rx_bytes |-> Some(1000000), tx_bytes |-> Some(1000000)],
              [rx_bytes |-> Some(2000000), tx_bytes |-> Null] >>
IdleRest == [currentLoad |-> Some(40), cpus |-> << Some(35), Some(45) >>,
             avg |-> Some(2), main |-> Some(55),
             used |-> Some(3), total |-> Some(4),
             fs |-> << [size |-> Some(4), used |-> Some(1)] >>,
             procs |-> << [pid |-> 1, cpu |-> Some(5)] >>]

\* what the provider returns to the derivations under test
\* si.disksIO(): cumulative bytes read / written
DiskReadings ==
    [rBytes : {Null, Some(1000000), Some(3000000)},
     wBytes : {Some(0), Some(1000000), Some(3000000)}]

\* si.networkStats(): one record per interface
NetReadings ==
    { <<>>,
      << [rx_bytes |-> Some(1000000), tx_bytes |-> Null] >>,
      << [rx_bytes |-> Some(1000000), tx_bytes |-> Some(3000000)],
         [rx_bytes |-> Some(2000000), tx_bytes |-> Some(1000000)] >> }

\* ---------------------------------------------------------------- state ----
VARIABLES
    phase,          \* "boot", "warmup" (startSampling awaits), "periodic" (timer armed)
    prevSampleAt,
    prevDiskStats,  \* Null or Some([rBytes, wBytes, at])
    prevNetStats,   \* Null or Some([rxBytes, txBytes, at])
    history,        \* the eight rolling windows
    lastPayload,    \* Null or Some(payload)
    cycles,         \* the collectSnapshot calls, by order of start
    sockets,        \* connected socket ids
    emitted,        \* what the last callback sent: socket events and HTTP responses
    win,            \* a rolling window under test
    pushed,         \* every item pushed to win, in push order
    derived,        \* the last rate derivation under test: its inputs and its result
    probe           \* the last normalisation under test: its inputs and its result

vars == <<phase, prevSampleAt, prevDiskStats, prevNetStats, history,
          lastPayload, cycles, sockets, emitted, win, pushed, derived, probe>>

sysVars == <<phase, prevSampleAt, prevDiskStats, prevNetStats, history,
             lastPayload, cycles, sockets, emitted>>

Windows == {"cpuLoad", "cpuTempC", "memUsedPercent", "diskReadMBps",
            "diskWriteMBps", "netDownMBps", "netUpMBps", "cpuAvgGHz"}

\* a promise of collectSnapshot's Promise.all: pending, rejected, or fulfilled
\* with a throughput pair
Pending  == [st |-> "pending",  a |-> Zero, b |-> Zero]
Rejected == [st |-> "rejected", a |-> Zero, b |-> Zero]
Gone     == [st |-> "gone",     a |-> Zero, b |-> Zero]
Fulfilled(a, b) == [st |-> "fulfilled", a |-> a, b |-> b]

NoIO == [rBytes |-> Null, wBytes |-> Null]

NoReading == [currentLoad |-> Null, cpus |-> <<>>, avg |-> Null, main |-> Null,
              used |-> Null, total |-> Null, fs |-> <<>>, procs |-> <<>>]

Unused == [kind |-> "none", status |-> "unused", now |-> 0, dtSec |-> Zero,
           disk |-> Pending, net |-> Pending,
           rest |-> [st |-> "pending", raw |-> NoReading]]

Started(c)  == cycles[c].status # "unused"
InFlight(c) == cycles[c].status = "gathering"
NumStarted  == Cardinality({c \in CycleIds : Started(c)})

\* `emitted`: the callback that ran last (with the socket or the cycle it ran
\* for) and the messages it sent; Quiet after a callback that sends nothing
Sent(by, arg, out) == [by |-> by, arg |-> arg, out |-> out]
Quiet == Sent("quiet", 0, <<>>)

Init ==
    /\ phase = "boot"
    /\ prevSampleAt = 0
    /\ prevDiskStats = Null
    /\ prevNetStats = Null
    /\ history = [w \in Windows |-> <<>>]
    /\ lastPayload = Null
    /\ cycles = [c \in CycleIds |-> Unused]
    /\ sockets = {}
    /\ emitted = Quiet
    /\ win = <<>>
    /\ pushed = <<>>
    /\ derived = Null
    /\ probe = Null

\* ------------------------------------------------------ rate derivation ----
\* Math.max(0.001, (now - prevSampleAt) / 1000)
dtSecOf(now, prevAt) == MathMax(Frac(1, MsPerSec), Frac(now - prevAt, MsPerSec))

RateMBpsSigned(curr, prev, dtSec) == FracDiv(bytesToMB(curr - prev), dtSec)

\* Math.max(0, bytesToMB(curr - prev) / dtSec)
RateMBps(curr, prev, dtSec) ==
    MathMax(Zero, FracDiv(bytesToMB(curr - prev), dtSec))

HasBaselineAlways(prev, dtSec) == TRUE

\* prevDiskStats && dtSec > 0
HasBaseline(prev, dtSec) == prev # Null /\ FracLess(Zero, dtSec)

\* prev.f; the guard above keeps the code from reading it without a baseline
BaseOf(prev, f) == IF prev = Null THEN 0 ELSE Get(prev)[f]

\* the body of getDiskThroughputMBps after its await: the result and the new baseline
getDiskThroughputMBps(ioStats, prev, now, dtSec) ==
    LET rBytes == Num(ioStats.rBytes)
        wBytes == Num(ioStats.wBytes)
        has    == HasBaseline(prev, dtSec)
    IN  [readMBps  |-> IF has THEN RateMBps(rBytes, BaseOf(prev, "rBytes"), dtSec) ELSE Zero,
         writeMBps |-> IF has THEN RateMBps(wBytes, BaseOf(prev, "wBytes"), dtSec) ELSE Zero,
         prev      |-> Some([rBytes |-> rBytes, wBytes |-> wBytes, at |-> now])]

RECURSIVE SumField(_, _)
SumField(nets, f) ==
    IF nets = <<>> THEN 0 ELSE Num(Head(nets)[f]) + SumField(Tail(nets), f)

\* the body of getNetworkThroughputMBps after its await
getNetworkThroughputMBps(nets, prev, now, dtSec) ==
    LET rxBytes == SumField(nets, "rx_bytes")
        txBytes == SumField(nets, "tx_bytes")
        has     == HasBaseline(prev, dtSec)
    IN  [downMBps |-> IF has THEN RateMBps(rxBytes, BaseOf(prev, "rxBytes"), dtSec) ELSE Zero,
         upMBps   |-> IF has THEN RateMBps(txBytes, BaseOf(prev, "txBytes"), dtSec) ELSE Zero,
         prev     |-> Some([rxBytes |-> rxBytes, txBytes |-> txBytes, at |-> now])]

\* ------------------------------------------------------ collectSnapshot ----
\* the synchronous head of collectSnapshot: now, dtSec, prevSampleAt, and the
\* nine provider reads issued by the Promise.all
BeginCycle(c, kind, now) ==
    /\ cycles' = [cycles EXCEPT ![c] =
                    [kind |-> kind, status |-> "gathering", now |-> now,
                     dtSec |-> dtSecOf(now, prevSampleAt),
                     disk |-> Pending, net |-> Pending,
                     rest |-> [st |-> "pending", raw |-> NoReading]]]
    /\ prevSampleAt' = now

\* the values normalised from the raw reads
Overall(raw)  == clamp(Frac(Num(raw.currentLoad), 1), Zero, Hundred)
AvgGHz(raw)   == MathMax(Zero, Frac(Num(raw.avg), 1))
MainTemp(raw) == IF raw.main # Null /\ Get(raw.main) >= 0
                 THEN Frac(Get(raw.main), 1) ELSE Null
UsedPercent(raw) ==
    LET totalBytes == Num(raw.total)
        usedBytes  == Num(raw.used)
    IN  IF totalBytes > 0
        THEN clamp(FracMul(Frac(usedBytes, totalBytes), Hundred), Zero, Hundred)
        ELSE Zero

\* (cpuLoad.cpus || []).map(c => clamp(Number(c.load) || 0, 0, 100))
PerCore(raw) ==
    [i \in 1..Len(raw.cpus) |-> clamp(Frac(Num(raw.cpus[i]), 1), Zero, Hundred)]

RECURSIVE SumOf(_, _)
SumOf(fsList, f) ==
    IF fsList = <<>> THEN 0 ELSE Get(Head(fsList)[f]) + SumOf(Tail(fsList), f)

\* the body of getDiskUsagePercent after its await: the mounts whose size and
\* used are numbers are summed
getDiskUsagePercent(fsList) ==
    LET counted == SelectSeq(fsList, LAMBDA d : d.size # Null /\ d.used # Null)
        used    == SumOf(counted, "used")
        size    == SumOf(counted, "size")
    IN  [usedBytes   |-> used,
         totalBytes  |-> size,
         usedPercent |-> IF size > 0
                         THEN clamp(FracMul(Frac(used, size), Hundred), Zero, Hundred)
                         ELSE Zero]

DiskUsedPercent(raw) == clamp(getDiskUsagePercent(raw.fs).usedPercent, Zero, Hundred)

RECURSIVE InsertDescBeforeTies(_, _)
InsertDescBeforeTies(s, x) ==
    IF s = <<>> THEN << x >>
    ELSE IF ~FracLess(x.cpuPercent, Head(s).cpuPercent) THEN << x >> \o s
    ELSE << Head(s) >> \o InsertDescBeforeTies(Tail(s), x)

\* list.sort((a, b) => b.cpuPercent - a.cpuPercent) is a stable sort (Node 20):
\* an entry goes behind every entry that does not compare lower
RECURSIVE InsertDesc(_, _)
InsertDesc(s, x) ==
    IF s = <<>> THEN << x >>
    ELSE IF FracLess(Head(s).cpuPercent, x.cpuPercent) THEN << x >> \o s
    ELSE << Head(s) >> \o InsertDesc(Tail(s), x)

RECURSIVE SortByCpuDesc(_)
SortByCpuDesc(list) ==
    IF list = <<>> THEN <<>>
    ELSE InsertDesc(SortByCpuDesc(SubSeq(list, 1, Len(list) - 1)), list[Len(list)])

TopCount == 5

\* the body of getTopProcesses after its await: map, sort, slice(0, 5)
getTopProcesses(procs) ==
    LET list   == [i \in 1..Len(procs) |->
                     [pid |-> procs[i].pid,
                      cpuPercent |-> clamp(Frac(Num(procs[i].cpu), 1), Zero, Hundred)]]
        sorted == SortByCpuDesc(list)
    IN  SubSeq(sorted, 1, IF Len(sorted) < TopCount THEN Len(sorted) ELSE TopCount)

\* the payload object; its history fields are references to the arrays of
\* `history`, so they are not part of the stored value
Payload(cyc) ==
    LET raw == cyc.rest.raw
    IN  [timestampMs    |-> cyc.now,
         overallPercent |-> Overall(raw),
         perCorePercent |-> PerCore(raw),
         avgGHz         |-> AvgGHz(raw),
         mainC          |-> MainTemp(raw),
         usedPercent    |-> UsedPercent(raw),
         freePercent    |-> clamp(FracSub(Hundred, UsedPercent(raw)), Zero, Hundred),
         diskUsedPercent |-> DiskUsedPercent(raw),
         diskFreePercent |-> clamp(FracSub(Hundred, DiskUsedPercent(raw)), Zero, Hundred),
         topProcesses   |-> getTopProcesses(raw.procs),
         readMBps       |-> MathMax(Zero, cyc.disk.a),
         writeMBps      |-> MathMax(Zero, cyc.disk.b),
         downMBps       |-> MathMax(Zero, cyc.net.a),
         upMBps         |-> MathMax(Zero, cyc.net.b)]

BuildHistoryPushesNull(h, p) ==
    LET pt(v) == [t |-> p.timestampMs, v |-> v]
    IN  [h EXCEPT
           !.cpuLoad        = pushRolling(@, pt(p.overallPercent)),
           !.cpuTempC       = pushRolling(@, pt(p.mainC)),
           !.memUsedPercent = pushRolling(@, pt(p.usedPercent)),
           !.diskReadMBps   = pushRolling(@, pt(p.readMBps)),
           !.diskWriteMBps  = pushRolling(@, pt(p.writeMBps)),
           !.netDownMBps    = pushRolling(@, pt(p.downMBps)),
           !.netUpMBps      = pushRolling(@, pt(p.upMBps)),
           !.cpuAvgGHz      = pushRolling(@, pt(p.avgGHz))]

BuildHistoryStampsLatest(h, p) ==
    LET pt(v) == [t |-> prevSampleAt, v |-> v]
    IN  [h EXCEPT
           !.cpuLoad        = pushRolling(@, pt(p.overallPercent)),
           !.cpuTempC       = IF p.mainC # Null THEN pushRolling(@, pt(p.mainC)) ELSE @,
           !.memUsedPercent = pushRolling(@, pt(p.usedPercent)),
           !.diskReadMBps   = pushRolling(@, pt(p.readMBps)),
           !.diskWriteMBps  = pushRolling(@, pt(p.writeMBps)),
           !.netDownMBps    = pushRolling(@, pt(p.downMBps)),
           !.netUpMBps      = pushRolling(@, pt(p.upMBps)),
           !.cpuAvgGHz      = pushRolling(@, pt(p.avgGHz))]

\* the eight pushes of "Build history"
BuildHistory(h, p) ==
    LET pt(v) == [t |-> p.timestampMs, v |-> v]
    IN  [h EXCEPT
           !.cpuLoad        = pushRolling(@, pt(p.overallPercent)),
           !.cpuTempC       = IF p.mainC # Null THEN pushRolling(@, pt(p.mainC)) ELSE @,
           !.memUsedPercent = pushRolling(@, pt(p.usedPercent)),
           !.diskReadMBps   = pushRolling(@, pt(p.readMBps)),
           !.diskWriteMBps  = pushRolling(@, pt(p.writeMBps)),
           !.netDownMBps    = pushRolling(@, pt(p.downMBps)),
           !.netUpMBps      = pushRolling(@, pt(p.upMBps)),
           !.cpuAvgGHz      = pushRolling(@, pt(p.avgGHz))]

\* what a receiver gets: the payload serialised with the arrays its history
\* fields point to, as they are when it is sent
Wire(p, h) ==
    [timestampMs  |-> p.timestampMs,
     cpuLoad      |-> [overallPercent |-> p.overallPercent,
                       perCorePercent |-> p.perCorePercent, history |-> h.cpuLoad],
     cpuSpeed     |-> [avgGHz |-> p.avgGHz, historyAvgGHz |-> h.cpuAvgGHz],
     cpuTemp      |-> [mainC |-> p.mainC, historyMainC |-> h.cpuTempC],
     memory       |-> [usedPercent |-> p.usedPercent, freePercent |-> p.freePercent,
                       historyUsedPercent |-> h.memUsedPercent],
     diskUsage    |-> [usedPercent |-> p.diskUsedPercent,
                       freePercent |-> p.diskFreePercent],
     diskActivity |-> [readMBps |-> p.readMBps, writeMBps |-> p.writeMBps,
                       historyReadMBps |-> h.diskReadMBps,
                       historyWriteMBps |-> h.diskWriteMBps],
     network      |-> [downMBps |-> p.downMBps, upMBps |-> p.upMBps,
                       historyDownMBps |-> h.netDownMBps,
                       historyUpMBps |-> h.netUpMBps],
     topProcesses |-> p.topProcesses]

Update(via, to, p, h) ==
    [ev |-> "health:update", via |-> via, to |-> to, data |-> Wire(p, h)]
Error(via, to, message) ==
    [ev |-> "health:error", via |-> via, to |-> to, data |-> [message |-> message]]

\* the promise values of an ended cycle are no longer reachable
Ended(cyc, status) ==
    [cyc EXCEPT !.status = status,
                !.disk = IF @.st = "pending" THEN @ ELSE Gone,
                !.net  = IF @.st = "pending" THEN @ ELSE Gone,
                !.rest = [st |-> "gone", raw |-> NoReading]]

\* the catch blocks of startSampling: the warm-up's logs, the timer's also emits
CaughtOut(cyc) ==
    IF cyc.kind = "warmup" THEN <<>>
    ELSE << Error("io", sockets, "Sampling failed") >>

ThrowClearsLatest(c, cyc) ==
    /\ cycles' = [cycles EXCEPT ![c] = Ended(cyc, "rejected")]
    /\ emitted' = Sent("collect", c, CaughtOut(cyc))
    /\ phase' = IF cyc.kind = "warmup" THEN "periodic" ELSE phase
    /\ lastPayload' = Null
    /\ UNCHANGED history

ThrowSkipsTimer(c, cyc) ==
    /\ cycles' = [cycles EXCEPT ![c] = Ended(cyc, "rejected")]
    /\ emitted' = Sent("collect", c, CaughtOut(cyc))
    /\ phase' = phase
    /\ UNCHANGED <<history, lastPayload>>

\* Promise.all rejected: collectSnapshot throws into its caller's catch
Throw(c, cyc) ==
    /\ cycles' = [cycles EXCEPT ![c] = Ended(cyc, "rejected")]
    /\ emitted' = Sent("collect", c, CaughtOut(cyc))
    /\ phase' = IF cyc.kind = "warmup" THEN "periodic" ELSE phase
    /\ UNCHANGED <<history, lastPayload>>

CompleteKeepsNewer(c, cyc) ==
    LET payload == Payload(cyc)
        h       == BuildHistory(history, payload)
        kept    == IF lastPayload # Null /\ Get(lastPayload).timestampMs > payload.timestampMs
                   THEN Get(lastPayload) ELSE payload
    IN  /\ history' = h
        /\ lastPayload' = Some(kept)
        /\ cycles' = [cycles EXCEPT ![c] = Ended(cyc, "resolved")]
        /\ emitted' = Sent("collect", c, << Update("io", sockets, kept, h) >>)
        /\ phase' = IF cyc.kind = "warmup" THEN "periodic" ELSE phase

\* Promise.all fulfilled: the rest of collectSnapshot, then its caller's emit
Complete(c, cyc) ==
    LET payload == Payload(cyc)
        h       == BuildHistory(history, payload)
    IN  /\ history' = h
        /\ lastPayload' = Some(payload)
        /\ cycles' = [cycles EXCEPT ![c] = Ended(cyc, "resolved")]
        /\ emitted' = Sent("collect", c, << Update("io", sockets, payload, h) >>)
        /\ phase' = IF cyc.kind = "warmup" THEN "periodic" ELSE phase

\* one of the reads of cycle c settled, leaving the cycle's record as cyc
Settle(c, cyc) ==
    IF cycles[c].status # "gathering"
    THEN /\ cycles' = [cycles EXCEPT ![c] = Ended(cyc, cycles[c].status)]
         /\ emitted' = Quiet
         /\ UNCHANGED <<history, lastPayload, phase>>
    ELSE IF "rejected" \in {cyc.disk.st, cyc.net.st, cyc.rest.st}
    THEN Throw(c, cyc)
    ELSE IF {cyc.disk.st, cyc.net.st, cyc.rest.st} = {"fulfilled"}
    THEN Complete(c, cyc)
    ELSE /\ cycles' = [cycles EXCEPT ![c] = cyc]
         /\ emitted' = Quiet
         /\ UNCHANGED <<history, lastPayload, phase>>

DiskIOFulfilled(c, ioStats) ==
    /\ Started(c) /\ cycles[c].disk.st = "pending"
    /\ LET r == getDiskThroughputMBps(ioStats, prevDiskStats, cycles[c].now, cycles[c].dtSec)
       IN  /\ prevDiskStats' = r.prev
           /\ Settle(c, [cycles[c] EXCEPT !.disk = Fulfilled(r.readMBps, r.writeMBps)])
    /\ UNCHANGED <<prevSampleAt, prevNetStats, sockets, win, pushed, derived, probe>>

DiskIORejected(c) ==
    /\ Started(c) /\ cycles[c].disk.st = "pending"
    /\ Settle(c, [cycles[c] EXCEPT !.disk = Rejected])
    /\ UNCHANGED <<prevSampleAt, prevDiskStats, prevNetStats, sockets, win, pushed, derived, probe>>

NetStatsFulfilled(c, nets) ==
    /\ Started(c) /\ cycles[c].net.st = "pending"
    /\ LET r == getNetworkThroughputMBps(nets, prevNetStats, cycles[c].now, cycles[c].dtSec)
       IN  /\ prevNetStats' = r.prev
           /\ Settle(c, [cycles[c] EXCEPT !.net = Fulfilled(r.downMBps, r.upMBps)])
    /\ UNCHANGED <<prevSampleAt, prevDiskStats, sockets, win, pushed, derived, probe>>

NetStatsRejected(c) ==
    /\ Started(c) /\ cycles[c].net.st = "pending"
    /\ Settle(c, [cycles[c] EXCEPT !.net = Rejected])
    /\ UNCHANGED <<prevSampleAt, prevDiskStats, prevNetStats, sockets, win, pushed, derived, probe>>

\* the reads that touch no shared state settle unobserved once the cycle ended
RestFulfilled(c, raw) ==
    /\ InFlight(c) /\ cycles[c].rest.st = "pending"
    /\ Settle(c, [cycles[c] EXCEPT !.rest = [st |-> "fulfilled", raw |-> raw]])
    /\ UNCHANGED <<prevSampleAt, prevDiskStats, prevNetStats, sockets, win, pushed, derived, probe>>

RestRejected(c) ==
    /\ InFlight(c) /\ cycles[c].rest.st = "pending"
    /\ Settle(c, [cycles[c] EXCEPT !.rest = [st |-> "rejected", raw |-> NoReading]])
    /\ UNCHANGED <<prevSampleAt, prevDiskStats, prevNetStats, sockets, win, pushed, derived, probe>>

\* ------------------------------------------------------------ the clock ----
\* Date.now() does not go back: what a cycle reads is the last value read
\* (prevSampleAt), or later by whole sampling intervals
Clock == {prevSampleAt + k * SAMPLE_INTERVAL_MS : k \in 0..MaxClock}
           \cap (0..(MaxClock * SAMPLE_INTERVAL_MS))

\* --------------------------------------------------------- sampling loop ----
StartSamplingArmsTimerFirst(now) ==
    /\ phase = "boot"
    /\ phase' = "periodic"
    /\ BeginCycle(1, "warmup", now)
    /\ emitted' = Quiet
    /\ UNCHANGED <<prevDiskStats, prevNetStats, history, lastPayload,
                   sockets, win, pushed, derived, probe>>

\* server.listen's callback: startSampling up to the await of the warm-up
StartSampling(now) ==
    /\ phase = "boot"
    /\ phase' = "warmup"
    /\ BeginCycle(1, "warmup", now)
    /\ emitted' = Quiet
    /\ UNCHANGED <<prevDiskStats, prevNetStats, history, lastPayload,
                   sockets, win, pushed, derived, probe>>

\* the setInterval callback of startSampling up to its await
PrimaryTick(now) ==
    /\ phase = "periodic"
    /\ NumStarted < MaxCycles
    /\ BeginCycle(NumStarted + 1, "periodic", now)
    /\ emitted' = Quiet
    /\ UNCHANGED <<phase, prevDiskStats, prevNetStats, history, lastPayload,
                   sockets, win, pushed, derived, probe>>

HeartbeatErrorsWhenEmpty ==
    /\ emitted' = Sent("heartbeat", 0,
                       IF lastPayload # Null
                       THEN << Update("io", sockets, Get(lastPayload), history) >>
                       ELSE << Error("io", sockets, "No data yet.") >>)
    /\ UNCHANGED <<phase, prevSampleAt, prevDiskStats, prevNetStats, history,
                   lastPayload, cycles, sockets, win, pushed, derived, probe>>

\* the 1000 ms setInterval at module level
Heartbeat ==
    /\ emitted' = Sent("heartbeat", 0,
                       IF lastPayload # Null
                       THEN << Update("io", sockets, Get(lastPayload), history) >>
                       ELSE <<>>)
    /\ UNCHANGED <<phase, prevSampleAt, prevDiskStats, prevNetStats, history,
                   lastPayload, cycles, sockets, win, pushed, derived, probe>>

\* ------------------------------------------------------ socket.io and REST ----
Listening == phase # "boot"

ConnectionSilent(s) ==
    /\ Listening /\ s \notin sockets
    /\ sockets' = sockets \cup {s}
    /\ emitted' = Sent("connection", s, <<>>)
    /\ UNCHANGED <<phase, prevSampleAt, prevDiskStats, prevNetStats, history,
                   lastPayload, cycles, win, pushed, derived, probe>>

Connection(s) ==
    /\ Listening /\ s \notin sockets
    /\ sockets' = sockets \cup {s}
    /\ emitted' = Sent("connection", s,
                       IF lastPayload # Null
                       THEN << Update("socket", {s}, Get(lastPayload), history) >>
                       ELSE <<>>)
    /\ UNCHANGED <<phase, prevSampleAt, prevDiskStats, prevNetStats, history,
                   lastPayload, cycles, win, pushed, derived, probe>>

Disconnect(s) ==
    /\ s \in sockets
    /\ sockets' = sockets \ {s}
    /\ emitted' = Quiet
    /\ UNCHANGED <<phase, prevSampleAt, prevDiskStats, prevNetStats, history,
                   lastPayload, cycles, win, pushed, derived, probe>>

HealthRequestSilentWhenEmpty(s) ==
    /\ s \in sockets
    /\ emitted' = Sent("health:request", s,
                       IF lastPayload # Null
                       THEN << Update("socket", {s}, Get(lastPayload), history) >>
                       ELSE <<>>)
    /\ UNCHANGED <<phase, prevSampleAt, prevDiskStats, prevNetStats, history,
                   lastPayload, cycles, sockets, win, pushed, derived, probe>>

HealthRequest(s) ==
    /\ s \in sockets
    /\ emitted' = Sent("health:request", s,
                       IF lastPayload # Null
                       THEN << Update("socket", {s}, Get(lastPayload), history) >>
                       ELSE << Error("socket", {s}, "No data yet.") >>)
    /\ UNCHANGED <<phase, prevSampleAt, prevDiskStats, prevNetStats, history,
                   lastPayload, cycles, sockets, win, pushed, derived, probe>>

HttpOk == 200
HttpUnavailable == 503

GetLatest ==
    /\ Listening
    /\ emitted' = Sent("GET /api/health/latest", 0,
                       IF lastPayload = Null
                       THEN << [status |-> HttpUnavailable,
                                body |-> [ok |-> FALSE, message |-> "No data yet."]] >>
                       ELSE << [status |-> HttpOk,
                                body |-> Wire(Get(lastPayload), history)] >>)
    /\ UNCHANGED <<phase, prevSampleAt, prevDiskStats, prevNetStats, history,
                   lastPayload, cycles, sockets, win, pushed, derived, probe>>

Next ==
    \/ \E now \in Clock : StartSampling(now)
    \/ \E now \in Clock : PrimaryTick(now)
    \/ \E c \in CycleIds : DiskIOFulfilled(c, IdleDisk)
    \/ \E c \in CycleIds : DiskIORejected(c)
    \/ \E c \in CycleIds : NetStatsFulfilled(c, IdleNets)
    \/ \E c \in CycleIds : NetStatsRejected(c)
    \/ \E c \in CycleIds : RestFulfilled(c, IdleRest)
    \/ \E c \in CycleIds : RestRejected(c)
    \/ Heartbeat
    \/ \E s \in Sockets : Connection(s)
    \/ \E s \in Sockets : Disconnect(s)
    \/ \E s \in Sockets : HealthRequest(s)
    \/ GetLatest

Spec == Init /\ [][Next]_vars

\* the sampling timer keeps firing: a tick that can start a cycle eventually does
SpecLive == Init /\ [][Next]_vars /\ WF_vars(\E now \in Clock : PrimaryTick(now))

\* ------------------------------------------- a rolling window on its own ----
TestLoads == {10, 20, 30, 40, 50}

Push(load) ==
    /\ Len(pushed) < MaxPushes
    /\ LET item == [t |-> Len(pushed) + 1, v |-> Frac(load, 1)]
       IN  /\ win' = pushRolling(win, item)
           /\ pushed' = Append(pushed, item)
    /\ UNCHANGED <<sysVars, derived, probe>>

NextRolling == \E load \in TestLoads : Push(load)

SpecRolling == Init /\ [][NextRolling]_vars

\* ------------------------------------------- a rate derivation on its own ----
\* collectSnapshot's head (now, dtSec, prevSampleAt) and one throughput function
DeriveDisk(ioStats, now) ==
    LET dtSec == dtSecOf(now, prevSampleAt)
        r     == getDiskThroughputMBps(ioStats, prevDiskStats, now, dtSec)
    IN  /\ prevSampleAt' = now
        /\ prevDiskStats' = r.prev
        /\ derived' = Some([of |-> "disk", io |-> ioStats, nets |-> <<>>,
                            base |-> prevDiskStats, dtSec |-> dtSec,
                            a |-> r.readMBps, b |-> r.writeMBps])
        /\ UNCHANGED <<phase, prevNetStats, history, lastPayload, cycles, sockets,
                       emitted, win, pushed, probe>>

DeriveNet(nets, now) ==
    LET dtSec == dtSecOf(now, prevSampleAt)
        r     == getNetworkThroughputMBps(nets, prevNetStats, now, dtSec)
    IN  /\ prevSampleAt' = now
        /\ prevNetStats' = r.prev
        /\ derived' = Some([of |-> "net", io |-> NoIO, nets |-> nets,
                            base |-> prevNetStats, dtSec |-> dtSec,
                            a |-> r.downMBps, b |-> r.upMBps])
        /\ UNCHANGED <<phase, prevDiskStats, history, lastPayload, cycles, sockets,
                       emitted, win, pushed, probe>>

NextRate ==
    \/ \E now \in Clock : \E ioStats \in DiskReadings : DeriveDisk(ioStats, now)
    \/ \E now \in Clock : \E nets \in NetReadings : DeriveNet(nets, now)

SpecRate == Init /\ [][NextRate]_vars

\* ================================================================ claims ====
Resolved(c) == cycles[c].status = "resolved"
Failed(c)   == cycles[c].status = "rejected"
Succeeded   == \E c \in CycleIds : Resolved(c)

\* the step that ended cycle c, as it shows in the state it leads to
EndedNow(c) == emitted.by = "collect" /\ emitted.arg = c

\* C1: at most one collection cycle is in flight at any time: a primary tick
\* that fires while a cycle still awaits its reads starts no second cycle.
C1_OneCycleInFlight ==
    Cardinality({c \in CycleIds : InFlight(c)}) <= 1

\* C2: a periodic cycle whose read batch rejects leaves the latest snapshot and
\* every rolling window as they were, so that what a request is served stays the
\* same; the latest snapshot and the windows change only in a step in which a
\* cycle completes successfully.
C2_FailedCycleKeepsLatest ==
    [][ /\ \A c \in CycleIds :
              (InFlight(c) /\ cycles[c].kind = "periodic" /\ cycles'[c].status = "rejected")
              => /\ lastPayload' = lastPayload
                 /\ history' = history
        /\ (lastPayload' # lastPayload \/ history' # history)
              => \E c \in CycleIds : InFlight(c) /\ cycles'[c].status = "resolved"
      ]_vars

C2_Witness ==
    \E c \in CycleIds :
        /\ EndedNow(c) /\ Failed(c) /\ cycles[c].kind = "periodic"
        /\ lastPayload # Null
        /\ Len(history.cpuLoad) > 0

\* C3: every cycle that fails, the warm-up as well as a periodic one, broadcasts
\* a health:error and no health:update.
C3_EveryFailureBroadcastsError ==
    \A c \in CycleIds :
        (EndedNow(c) /\ Failed(c))
        => emitted.out = << Error("io", sockets, "Sampling failed") >>

\* C4: each of the eight rolling windows holds at most HISTORY_POINTS points,
\* after any sequence of cycles.
C4_WindowsBounded ==
    \A w \in Windows : Len(history[w]) <= HISTORY_POINTS

C4_Witness ==
    /\ Cardinality({c \in CycleIds : Resolved(c)}) > HISTORY_POINTS
    /\ \A w \in Windows : Len(history[w]) = HISTORY_POINTS

\* C5: after more pushes than the capacity, a window holds exactly
\* HISTORY_POINTS points: the most recently pushed ones, in push order.
C5_KeepsMostRecent ==
    Len(pushed) > HISTORY_POINTS
    => /\ Len(win) = HISTORY_POINTS
       /\ \A i \in 1..HISTORY_POINTS :
              win[i] = pushed[Len(pushed) - HISTORY_POINTS + i]

C5_Witness ==
    /\ [i \in 1..Len(pushed) |-> pushed[i].v]
         = << Frac(10, 1), Frac(20, 1), Frac(30, 1), Frac(40, 1), Frac(50, 1) >>
    /\ Len(win) = HISTORY_POINTS
    /\ win[Len(win)].v = Frac(50, 1)
    /\ win[1].v = Frac(50 - 10 * (HISTORY_POINTS - 1), 1)

\* the cumulative counters a derivation read and the ones of its baseline
CurrOf(d) ==
    IF d.of = "disk"
    THEN << Get(prevDiskStats).rBytes, Get(prevDiskStats).wBytes >>
    ELSE << Get(prevNetStats).rxBytes, Get(prevNetStats).txBytes >>
BaseCounters(d) ==
    IF d.of = "disk"
    THEN << Get(d.base).rBytes, Get(d.base).wBytes >>
    ELSE << Get(d.base).rxBytes, Get(d.base).txBytes >>

\* rate is the rate of a counter that went from prev to curr in dtSec seconds
IsRateOf(rate, curr, prev, dtSec) ==
    /\ ~FracLess(rate, Zero)
    /\ IF curr >= prev
       THEN FracMul(rate, dtSec) = Frac(curr - prev, BytesPerMB)
       ELSE rate = Zero

\* C6: with a baseline, each disk and network rate is max(0, (curr - prev) / dt)
\* in MB: (curr - prev) / dt when curr >= prev, and 0 when curr < prev.
C6_RateFromBaseline ==
    (derived # Null /\ Get(derived).base # Null)
    => LET d == Get(derived)
       IN  /\ IsRateOf(d.a, CurrOf(d)[1], BaseCounters(d)[1], d.dtSec)
           /\ IsRateOf(d.b, CurrOf(d)[2], BaseCounters(d)[2], d.dtSec)

C6_Witness ==
    /\ derived # Null /\ Get(derived).base # Null
    /\ Get(derived).of = "disk"
    /\ Get(derived).dtSec = Frac(1, 1)
    /\ BaseCounters(Get(derived)) = << 1000000, 3000000 >>
    /\ CurrOf(Get(derived)) = << 3000000, 1000000 >>
    /\ Get(derived).a = Frac(15625, 8192)
    /\ Get(derived).b = Zero

\* C7: the first derivation, made without a baseline, yields rate 0 whatever
\* the counters read, and stores them as the baseline of the next one.
C7_FirstDerivationIsZero ==
    (derived # Null /\ Get(derived).base = Null)
    => LET d == Get(derived)
       IN  /\ d.a = Zero /\ d.b = Zero
           /\ d.of = "disk" =>
                prevDiskStats = Some([rBytes |-> Num(d.io.rBytes),
                                      wBytes |-> Num(d.io.wBytes),
                                      at |-> prevSampleAt])
           /\ d.of = "net" =>
                prevNetStats = Some([rxBytes |-> SumField(d.nets, "rx_bytes"),
                                     txBytes |-> SumField(d.nets, "tx_bytes"),
                                     at |-> prevSampleAt])

C7_Witness ==
    /\ derived # Null /\ Get(derived).base = Null
    /\ Get(derived).of = "disk"
    /\ Get(derived).io.rBytes = Some(3000000)
    /\ Get(derived).a = Zero
    /\ Get(prevDiskStats).rBytes = 3000000

\* C8: an observer that connects after a cycle has succeeded is sent, in the
\* connection step and to it alone, a health:update with the latest snapshot.
C8_JoinGetsLatest ==
    (emitted.by = "connection" /\ Succeeded)
    => /\ lastPayload # Null
       /\ emitted.out
            = << Update("socket", {emitted.arg}, Get(lastPayload), history) >>

C8_Witness ==
    /\ emitted.by = "connection"
    /\ \E c \in CycleIds : Resolved(c) /\ cycles[c].kind = "periodic"
    /\ Len(emitted.out) = 1

\* C9: a health:request or a GET /api/health/latest is always answered: with
\* "No data yet." (health:error, HTTP 503) while no cycle has succeeded, with
\* the latest snapshot afterwards.
C9_RequestAlwaysAnswered ==
    /\ emitted.by = "health:request"
         => emitted.out
              = IF Succeeded
                THEN << Update("socket", {emitted.arg}, Get(lastPayload), history) >>
                ELSE << Error("socket", {emitted.arg}, "No data yet.") >>
    /\ emitted.by = "GET /api/health/latest"
         => emitted.out
              = IF Succeeded
                THEN << [status |-> HttpOk, body |-> Wire(Get(lastPayload), history)] >>
                ELSE << [status |-> HttpUnavailable,
                         body |-> [ok |-> FALSE, message |-> "No data yet."]] >>

C9_Witness ==
    /\ emitted.by = "health:request"
    /\ ~Succeeded
    /\ \E c \in CycleIds : Failed(c)
    /\ emitted.out = << Error("socket", {emitted.arg}, "No data yet.") >>

\* C10: no periodic cycle starts before the warm-up has ended; a warm-up that
\* succeeds has stored and broadcast its snapshot before the first periodic tick.
C10_WarmupFirst ==
    /\ (\E c \in CycleIds : Started(c) /\ cycles[c].kind = "periodic")
         => (Resolved(1) \/ Failed(1))
    /\ (EndedNow(1) /\ Resolved(1))
         => /\ NumStarted = 1
            /\ lastPayload # Null
            /\ Get(lastPayload).timestampMs = cycles[1].now
            /\ emitted.out
                 = << Update("io", sockets, Get(lastPayload), history) >>

C10_Witness ==
    /\ EndedNow(1) /\ Resolved(1)
    /\ cycles[1].kind = "warmup"
    /\ sockets # {}

\* C11: a heartbeat tick broadcasts the latest snapshot, as it is served at
\* that moment, when there is one and nothing otherwise; it starts no cycle and
\* leaves the latest snapshot, the windows and the counter baselines unchanged.
C11_HeartbeatOnlyRepublishes ==
    [][ emitted'.by = "heartbeat"
        => /\ emitted'.out
                = IF lastPayload # Null
                  THEN << Update("io", sockets, Get(lastPayload), history) >>
                  ELSE <<>>
           /\ cycles' = cycles
           /\ prevSampleAt' = prevSampleAt
           /\ lastPayload' = lastPayload
           /\ history' = history
           /\ prevDiskStats' = prevDiskStats
           /\ prevNetStats' = prevNetStats
      ]_vars

C11_Witness ==
    /\ emitted.by = "heartbeat"
    /\ Len(emitted.out) = 1
    /\ emitted.out[1].data.timestampMs = Get(lastPayload).timestampMs
    /\ \E c \in CycleIds : InFlight(c)

\* what a heartbeat, a join or a request publishes: the latest snapshot with the
\* arrays its history fields point to
Served == IF lastPayload = Null THEN Null ELSE Some(Wire(Get(lastPayload), history))

\* C12: the histories a snapshot carries are those of the moment it was
\* produced: what is served changes only in the step in which a cycle completes
\* and stores its own snapshot, so no snapshot is published with points pushed
\* after it was produced.
C12_HistoriesPointInTime ==
    [][ Served' # Served
        => \E c \in CycleIds :
              /\ InFlight(c) /\ cycles'[c].status = "resolved"
              /\ Get(lastPayload').timestampMs = cycles[c].now
              /\ emitted'.out = << Update("io", sockets, Get(lastPayload'), history') >>
      ]_vars

C12_Witness ==
    /\ emitted.by \in {"heartbeat", "connection", "health:request"}
    /\ Len(emitted.out) = 1
    /\ emitted.out[1].ev = "health:update"
    /\ Cardinality({c \in CycleIds : Resolved(c)}) >= 2
    /\ emitted.out[1].data.cpuLoad.history = history.cpuLoad
    /\ history.cpuLoad[Len(history.cpuLoad)].t = emitted.out[1].data.timestampMs

\* ------------------------------------------- the normalisation on its own ----
\* what the provider may return to one cycle: out-of-range, negative and
\* missing / non-numeric values
LoadReadings == {Null, Some(-5), Some(40), Some(150)}

CoreReadings == { <<>>, << Some(-5), Some(150) >>, << Null, Some(40) >> }

MemReadings ==
    { [used |-> Some(3),  total |-> Some(4)],
      [used |-> Some(5),  total |-> Some(4)],
      [used |-> Some(-1), total |-> Some(4)],
      [used |-> Some(3),  total |-> Some(0)],
      [used |-> Null,     total |-> Null] }

FsReadings ==
    { <<>>,
      << [size |-> Some(4), used |-> Some(3)] >>,
      << [size |-> Some(4), used |-> Some(6)], [size |-> Null, used |-> Some(1)] >>,
      << [size |-> Some(4), used |-> Some(-1)] >> }

ProcReadings ==
    { <<>>,
      << [pid |-> 1, cpu |-> Some(150)], [pid |-> 2, cpu |-> Some(-5)],
         [pid |-> 3, cpu |-> Null] >> }

DiskBaselines == {Null, Some([rBytes |-> 2000000, wBytes |-> 2000000, at |-> 0])}
NetBaselines  == {Null, Some([rxBytes |-> 2000000, txBytes |-> 2000000, at |-> 0])}

\* one collectSnapshot call whose reads all fulfil, up to the payload
Normalise(load, cpus, mem, fs, procs, ioStats, diskBase, nets, netBase) ==
    /\ probe = Null
    /\ LET now   == SAMPLE_INTERVAL_MS
           dtSec == dtSecOf(now, prevSampleAt)
           d     == getDiskThroughputMBps(ioStats, diskBase, now, dtSec)
           n     == getNetworkThroughputMBps(nets, netBase, now, dtSec)
           raw   == [currentLoad |-> load, cpus |-> cpus, avg |-> Some(2),
                     main |-> Some(55), used |-> mem.used, total |-> mem.total,
                     fs |-> fs, procs |-> procs]
           cyc   == [kind |-> "periodic", status |-> "gathering", now |-> now,
                     dtSec |-> dtSec,
                     disk |-> Fulfilled(d.readMBps, d.writeMBps),
                     net |-> Fulfilled(n.downMBps, n.upMBps),
                     rest |-> [st |-> "fulfilled", raw |-> raw]]
       IN  probe' = Some([raw |-> raw, payload |-> Payload(cyc)])
    /\ UNCHANGED <<sysVars, win, pushed, derived>>

NextNormalise ==
    \E load \in LoadReadings, cpus \in CoreReadings, mem \in MemReadings,
       fs \in FsReadings, procs \in ProcReadings,
       ioStats \in {IdleDisk, NoIO}, diskBase \in DiskBaselines,
       nets \in {IdleNets, <<>>}, netBase \in NetBaselines :
        Normalise(load, cpus, mem, fs, procs, ioStats, diskBase, nets, netBase)

SpecNormalise == Init /\ [][NextNormalise]_vars

InPercentRange(x) == ~FracLess(x, Zero) /\ ~FracLess(Hundred, x)

\* C13: every percentage of a produced snapshot (overall and per-core load,
\* memory used / free, disk used / free, process cpuPercent) lies in [0, 100]
\* and every rate is >= 0, whatever the provider returned.
C13_PercentagesAndRatesInRange ==
    probe # Null
    => LET p == Get(probe).payload
       IN  /\ InPercentRange(p.overallPercent)
           /\ \A i \in 1..Len(p.perCorePercent) : InPercentRange(p.perCorePercent[i])
           /\ InPercentRange(p.usedPercent)
           /\ InPercentRange(p.freePercent)
           /\ InPercentRange(p.diskUsedPercent)
           /\ InPercentRange(p.diskFreePercent)
           /\ \A i \in 1..Len(p.topProcesses) : InPercentRange(p.topProcesses[i].cpuPercent)
           /\ \A r \in {p.readMBps, p.writeMBps, p.downMBps, p.upMBps} :
                  ~FracLess(r, Zero)

C13_Witness ==
    /\ probe # Null
    /\ Get(probe).raw.currentLoad = Some(150)
    /\ Get(probe).raw.cpus = << Some(-5), Some(150) >>
    /\ Get(probe).raw.used = Some(5)
    /\ Get(probe).raw.fs = << [size |-> Some(4), used |-> Some(-1)] >>
    /\ Len(Get(probe).raw.procs) = 3
    /\ Get(probe).payload.overallPercent = Hundred
    /\ Get(probe).payload.perCorePercent = << Zero, Hundred >>
    /\ Get(probe).payload.usedPercent = Hundred
    /\ Get(probe).payload.diskUsedPercent = Zero
    /\ Get(probe).payload.diskFreePercent = Hundred
    /\ Get(probe).payload.readMBps = Zero
    /\ Get(probe).payload.writeMBps = Frac(15625, 16384)

\* C14: after a cycle has failed, warm-up or periodic, the timer starts a
\* further cycle (as long as the run has cycles left), and a cycle that
\* completes after a failure still stores and broadcasts its snapshot.
C14_SamplerKeepsRunning ==
    /\ \A c \in 1..(MaxCycles - 1) : Failed(c) ~> Started(c + 1)
    /\ [](\A c \in CycleIds :
            (EndedNow(c) /\ Resolved(c))
            => /\ lastPayload # Null
               /\ Get(lastPayload).timestampMs = cycles[c].now
               /\ emitted.out = << Update("io", sockets, Get(lastPayload), history) >>)

C14_Witness ==
    /\ Failed(1) /\ Failed(2)
    /\ EndedNow(3) /\ Resolved(3)
    /\ Get(lastPayload).timestampMs = cycles[3].now

\* ------------------------------------------------ the top list on its own ----
MaxProcs == 6     \* processes the provider may list

CpuReadings == {Null, Some(30), Some(100), Some(150)}

\* si.processes() lists one more process; getTopProcesses runs on the list
Report(cpu) ==
    /\ LET procs == IF probe = Null THEN <<>> ELSE Get(probe).procs
           list  == Append(procs, [pid |-> Len(procs) + 1, cpu |-> cpu])
       IN  /\ Len(procs) < MaxProcs
           /\ probe' = Some([procs |-> list, top |-> getTopProcesses(list)])
    /\ UNCHANGED <<sysVars, win, pushed, derived>>

NextTop == \E cpu \in CpuReadings : Report(cpu)

SpecTop == Init /\ [][NextTop]_vars

\* the clamped cpuPercent of the process listed at position pid
CpuPercentOf(procs, pid) == clamp(Frac(Num(procs[pid].cpu), 1), Zero, Hundred)

\* process a ranks before process b: higher cpuPercent, or equal and listed first
RanksBefore(procs, a, b) ==
    \/ FracLess(CpuPercentOf(procs, b), CpuPercentOf(procs, a))
    \/ /\ CpuPercentOf(procs, b) = CpuPercentOf(procs, a)
       /\ a < b

\* C15: topProcesses has at most 5 entries: the processes with the highest
\* clamped cpuPercent, in descending order, those of equal cpuPercent in the
\* order in which the provider listed them.
C15_TopFiveStableDescending ==
    probe # Null
    => LET procs == Get(probe).procs
           top   == Get(probe).top
           inTop == {top[i].pid : i \in 1..Len(top)}
       IN  /\ Len(top) = IF Len(procs) < TopCount THEN Len(procs) ELSE TopCount
           /\ \A i \in 1..Len(top) :
                 /\ top[i].pid \in 1..Len(procs)
                 /\ top[i].cpuPercent = CpuPercentOf(procs, top[i].pid)
           /\ \A i, j \in 1..Len(top) :
                 i < j => RanksBefore(procs, top[i].pid, top[j].pid)
           /\ \A a \in inTop : \A b \in (1..Len(procs)) \ inTop :
                 RanksBefore(procs, a, b)

C15_Witness ==
    /\ probe # Null
    /\ [i \in 1..Len(Get(probe).procs) |-> Get(probe).procs[i].cpu]
         = << Some(30), Some(150), Null, Some(100), Some(30), Some(30) >>
    /\ [i \in 1..Len(Get(probe).top) |-> Get(probe).top[i].pid] = << 2, 4, 1, 5, 6 >>

\* C16: in every rolling window the timestamps of the points are
\* non-decreasing from head to tail.
C16_WindowsChronological ==
    \A w \in Windows :
        \A i \in 1..(Len(history[w]) - 1) : history[w][i].t <= history[w][i + 1].t

\* ---------------------------------------- the history building on its own ----
\* si.cpuTemperature().main: missing / non-numeric, -1 (unavailable), a reading
TempReadings == {Null, Some(-1), Some(0), Some(55)}

\* one collectSnapshot call whose reads all fulfil before any other callback
\* runs: the payload, the pushes and the store
Assemble(load, main, now) ==
    LET raw == [IdleRest EXCEPT !.currentLoad = load, !.main = main]
        cyc == [kind |-> "periodic", status |-> "gathering", now |-> now,
                dtSec |-> dtSecOf(now, prevSampleAt),
                disk |-> Fulfilled(Zero, Zero), net |-> Fulfilled(Zero, Zero),
                rest |-> [st |-> "fulfilled", raw |-> raw]]
        payload == Payload(cyc)
    IN  /\ prevSampleAt' = now
        /\ history' = BuildHistory(history, payload)
        /\ lastPayload' = Some(payload)
        /\ probe' = Some([raw |-> raw, now |-> now])
        /\ UNCHANGED <<phase, prevDiskStats, prevNetStats, cycles, sockets, emitted,
                       win, pushed, derived>>

NextAssemble ==
    \E load \in {Some(40), Some(150)}, main \in TempReadings, now \in Clock :
        Assemble(load, main, now)

SpecAssemble == Init /\ [][NextAssemble]_vars

\* window new is window old after exactly one push of a point stamped t
OnePointPushed(old, new, t) ==
    /\ Len(new) >= 1
    /\ new[Len(new)].t = t
    /\ LET front == SubSeq(new, 1, Len(new) - 1)
       IN  \/ Len(old) < HISTORY_POINTS /\ front = old
           \/ Len(old) = HISTORY_POINTS /\ front = Tail(old)

TempUnavailable(main) == main = Null \/ Get(main) < 0

\* C17: a successful cycle whose main temperature reading is null, non-numeric
\* or negative yields mainC = null and leaves the cpuTempC window as it was,
\* while each of the other seven windows gets exactly one new point stamped with
\* the cycle's timestamp.
C17_UnavailableTempSkipsWindow ==
    [][ TempUnavailable(Get(probe').raw.main)
        => /\ Get(lastPayload').mainC = Null
           /\ Get(lastPayload').timestampMs = Get(probe').now
           /\ history'.cpuTempC = history.cpuTempC
           /\ \A w \in Windows \ {"cpuTempC"} :
                 OnePointPushed(history[w], history'[w], Get(probe').now)
      ]_vars

C17_Witness ==
    /\ probe # Null
    /\ Get(probe).raw.main = Some(-1)
    /\ Get(lastPayload).mainC = Null
    /\ Len(history.cpuTempC) = 1
    /\ history.cpuTempC[1].v = Frac(55, 1)
    /\ Len(history.cpuLoad) = HISTORY_POINTS
    /\ history.cpuLoad[HISTORY_POINTS].t = Get(probe).now
    /\ history.cpuLoad[HISTORY_POINTS].t > history.cpuTempC[1].t

\* the step in which the disk / network counter read of cycle c, still in
\* flight, fulfils and its rate is derived
DiskDerivedNow(c) ==
    /\ InFlight(c) /\ cycles[c].disk.st = "pending"
    /\ cycles'[c].disk.st = "fulfilled" \/ cycles'[c].status = "resolved"
NetDerivedNow(c) ==
    /\ InFlight(c) /\ cycles[c].net.st = "pending"
    /\ cycles'[c].net.st = "fulfilled" \/ cycles'[c].status = "resolved"

\* C18: whenever a rate is derived from a baseline, the divisor dt is the time
\* from the instant stored with that baseline (prevDiskStats.at, prevNetStats.at)
\* to the cycle's timestamp, floored at 1 ms.
C18_DtIsTimeSinceBaseline ==
    [][ \A c \in CycleIds :
          /\ (DiskDerivedNow(c) /\ prevDiskStats # Null)
               => cycles[c].dtSec = dtSecOf(cycles[c].now, Get(prevDiskStats).at)
          /\ (NetDerivedNow(c) /\ prevNetStats # Null)
               => cycles[c].dtSec = dtSecOf(cycles[c].now, Get(prevNetStats).at)
      ]_vars

\* C19: every replacement of the latest snapshot stores a snapshot whose
\* timestampMs is greater than or equal to that of the snapshot it replaces.
C19_LatestTimestampMonotone ==
    [][ (lastPayload # Null /\ lastPayload' # Null)
        => Get(lastPayload').timestampMs >= Get(lastPayload).timestampMs
      ]_vars

\* the newest point of window w
Newest(w) == history[w][Len(history[w])]

\* C20: whenever a latest snapshot exists, the newest point of the cpuLoad,
\* memUsedPercent, disk read / write and network down / up windows carries the
\* snapshot's timestampMs and the snapshot's current value of that metric, in
\* every state a heartbeat, a join or a request can observe.
C20_LatestMatchesWindows ==
    lastPayload # Null
    => LET p == Get(lastPayload)
           current == [cpuLoad        |-> p.overallPercent,
                       memUsedPercent |-> p.usedPercent,
                       diskReadMBps   |-> p.readMBps,
                       diskWriteMBps  |-> p.writeMBps,
                       netDownMBps    |-> p.downMBps,
                       netUpMBps      |-> p.upMBps]
       IN  \A w \in DOMAIN current :
              /\ Len(history[w]) >= 1
              /\ Newest(w) = [t |-> p.timestampMs, v |-> current[w]]

C20_Witness ==
    /\ lastPayload # Null
    /\ emitted.by \in {"heartbeat", "connection", "health:request"}
    /\ Cardinality({c \in CycleIds : Resolved(c)}) > HISTORY_POINTS
    /\ Len(history.cpuLoad) = HISTORY_POINTS
    /\ Newest("cpuLoad").t = Get(lastPayload).timestampMs
    /\ Newest("cpuLoad").t < history.cpuLoad[1].t

====
